---- MODULE Spec2Model ----
(***************************************************************************)
(* State-machine model of app.py: one Streamlit session of the chatbot.    *)
(* A script run is the sequence of steps sidebar -> patient_upload ->      *)
(* course_upload -> chat_display -> chat_input; a user event (widget       *)
(* interaction) starts a run, st.rerun() restarts it, an uncaught          *)
(* exception ends it.  The ingestion and retrieval modules imported by     *)
(* app.py (src.pdf_utils, src.rag) are modelled from the specification.    *)
(***************************************************************************)
EXTENDS Integers, Sequences, FiniteSets, TLC

(***************************************************************************)
(* Bounds of the model.                                                    *)
(***************************************************************************)
MaxUploads == 2       \* uploads are accepted while the uploader keys sum to less
MaxClock == 1         \* questions answered in one session

(***************************************************************************)
(* Program constants and input universes.                                  *)
(***************************************************************************)
COURSE_DIR == "data/medical_course"
PATIENT_DIR == "data/patient_data"
COURSE_NAMESPACE == "Medical_Course"
NONE == "None"            \* the "no client" entry of the selector
Null == "<null>"          \* Python None

SearchModes == {"Both", "Client Only", "Coursebook Only"}
PatientFiles == {"A.pdf", "Medical_Course.pdf"}
CourseFiles == {"book.pdf"}
Questions == {"q1"}
BlankMsgs == {" "}

\* os.path.splitext(filename)[0]
splitext0(filename) ==
    CASE filename = "A.pdf" -> "A"
      [] filename = "B.pdf" -> "B"
      [] filename = "Medical_Course.pdf" -> "Medical_Course"
      [] filename = "None.pdf" -> "None"
      [] filename = "book.pdf" -> "book"
      [] OTHER -> filename

\* os.path.join(dir, filename)
path_join(dir, filename) == dir \o "/" \o filename

\* user_msg.strip()
strip(msg) == IF msg \in BlankMsgs THEN "" ELSE msg

(***************************************************************************)
(* The modules app.py imports, modelled from the specification:            *)
(* Chunker, Index Store Gateway, Ingestion Pipeline (src.pdf_utils) and    *)
(* Retriever Composer, Answer Chain (src.rag).                             *)
(***************************************************************************)
K_PER_NAMESPACE == 2
TOP_N == 3

Namespaces == {splitext0(f) : f \in PatientFiles} \cup {COURSE_NAMESPACE}

\* Chunker: the ordered chunks of a document, each with its page and its
\* sequential chunk_index.
ChunksOf(filename) ==
    CASE filename = "A.pdf" ->
            << [page |-> 1, chunk_index |-> 0], [page |-> 1, chunk_index |-> 1] >>
      [] filename = "book.pdf" ->
            << [page |-> 1, chunk_index |-> 0], [page |-> 2, chunk_index |-> 1] >>
      [] OTHER -> << [page |-> 1, chunk_index |-> 0] >>

ChunkText(source, c) == source \o "#" \o ToString(c.chunk_index)

\* Ingestion Pipeline: the deterministic id of a chunk's vector.
VectorId(namespace, source, c, held) ==
    << namespace, source, c.page, c.chunk_index >>

\* Index Store Gateway: upsert(namespace, items) overwrites by id.
Upsert(held, items) ==
    {v \in held : \A w \in items : w.id # v.id} \cup items

\* The IndexedVector items of the first n chunks of a document.
ItemsOf(namespace, source, filename, n, held) ==
    { [id |-> VectorId(namespace, source, ChunksOf(filename)[i], held),
       source |-> source,
       page |-> ChunksOf(filename)[i].page,
       chunk_index |-> ChunksOf(filename)[i].chunk_index,
       text |-> ChunkText(source, ChunksOf(filename)[i])] : i \in 1..n }

IngestOutcomes == {"ok", "ExtractionError", "EmbeddingProviderError", "IndexStoreError"}

\* The number of chunks an ingestion that ends in `outcome` may have upserted:
\* all of them when it completes, none when extraction or embedding fails, a
\* proper prefix when the store rejects a write.
UpsertedCounts(filename, outcome) ==
    CASE outcome = "ok" -> {Len(ChunksOf(filename))}
      [] outcome = "IndexStoreError" -> 0..(Len(ChunksOf(filename)) - 1)
      [] OTHER -> {0}

\* process_patient_pdf(save_path, patient_id, embedding, pc, index_name):
\* the store after the call, n chunks having been upserted.
process_patient_pdf(idx, save_path, patient_id, filename, n) ==
    [idx EXCEPT ![patient_id] =
        Upsert(@, ItemsOf(patient_id, save_path, filename, n, @))]

\* process_coursebook_pdf(save_path, embedding, index_name)
process_coursebook_pdf(idx, save_path, filename, n) ==
    [idx EXCEPT ![COURSE_NAMESPACE] =
        Upsert(@, ItemsOf(COURSE_NAMESPACE, save_path, filename, n, @))]

\* describe_index_stats()["namespaces"]: the namespaces that hold vectors.
StatsNamespaces(idx) == {ns \in DOMAIN idx : idx[ns] # {}}

\* Similarity of a stored vector to the (embedded) question.
Score(question, v) == 1 + ((v.page + v.chunk_index) % 2)

RECURSIVE RankByScore(_, _)
RankByScore(S, question) ==
    IF S = {} THEN << >>
    ELSE LET v == CHOOSE x \in S : \A w \in S : Score(question, x) >= Score(question, w)
         IN  << v >> \o RankByScore(S \ {v}, question)

Take(seq, n) == SubSeq(seq, 1, IF Len(seq) < n THEN Len(seq) ELSE n)

\* Index Store Gateway: query of one namespace, at most k results by
\* descending score, each tagged with the namespace it came from.
QueryNamespace(idx, ns, question, k) ==
    LET held == IF ns \in DOMAIN idx THEN idx[ns] ELSE {}
        ranked == Take(RankByScore(held, question), k)
    IN  [i \in 1..Len(ranked) |->
            [namespace |-> ns,
             source |-> ranked[i].source,
             page |-> ranked[i].page,
             chunk_index |-> ranked[i].chunk_index,
             score |-> Score(question, ranked[i]),
             text |-> ranked[i].text]]

RECURSIVE Concat(_)
Concat(seqs) ==
    IF seqs = << >> THEN << >> ELSE Head(seqs) \o Concat(Tail(seqs))

\* an insertion that puts r before the elements of equal score
RECURSIVE InsertUnstable(_, _)
InsertUnstable(sorted, r) ==
    IF sorted = << >> THEN << r >>
    ELSE IF Head(sorted).score > r.score
         THEN << Head(sorted) >> \o InsertUnstable(Tail(sorted), r)
         ELSE << r >> \o sorted

\* Stable insertion of r into a sequence sorted by descending score: r goes
\* after every element whose score is at least its own.
RECURSIVE InsertByScore(_, _)
InsertByScore(sorted, r) ==
    IF sorted = << >> THEN << r >>
    ELSE IF Head(sorted).score >= r.score
         THEN << Head(sorted) >> \o InsertByScore(Tail(sorted), r)
         ELSE << r >> \o sorted

RECURSIVE SortByScore(_)
SortByScore(rs) ==
    IF rs = << >> THEN << >>
    ELSE InsertByScore(SortByScore(SubSeq(rs, 1, Len(rs) - 1)), rs[Len(rs)])

ChunkKey(r) == << r.source, r.page, r.chunk_index >>

\* a deduplication that keeps the last of the results sharing a key
DedupKeepLast(rs) ==
    SelectSeq([i \in 1..Len(rs) |-> [r |-> rs[i], i |-> i]],
              LAMBDA e : \A j \in (e.i + 1)..Len(rs) : ChunkKey(rs[j]) # ChunkKey(e.r))

\* Deduplication of a sequence sorted by descending score: of the results
\* that share (source_path, page, chunk_index) the first, higher-scoring one
\* is kept.
DedupEntries(rs) ==
    SelectSeq([i \in 1..Len(rs) |-> [r |-> rs[i], i |-> i]],
              LAMBDA e : \A j \in 1..(e.i - 1) : ChunkKey(rs[j]) # ChunkKey(e.r))

Dedup(rs) == [i \in 1..Len(DedupEntries(rs)) |-> DedupEntries(rs)[i].r]

\* Retriever Composer: concatenate the per-namespace results in configured
\* order, sort by descending score (stable), deduplicate, keep the top N.
Compose(per_namespace) ==
    Take(Dedup(SortByScore(Concat(per_namespace))), TOP_N)

\* build_retrievers(index_name, embedding, patient_id, course_namespace):
\* the configured namespaces, patient first.
build_retrievers(patient_id, course_namespace) ==
    (IF patient_id = Null THEN << >> ELSE << patient_id >>)
    \o (IF course_namespace = Null THEN << >> ELSE << course_namespace >>)

\* retrieve(question, k_per_namespace) over the configured namespaces.
Retrieve(idx, retriever, question) ==
    Compose([i \in 1..Len(retriever) |->
                QueryNamespace(idx, retriever[i], question, K_PER_NAMESPACE)])

Answers == {"answer"}

\* ask(chain, question): the answer with the sources passed as context and
\* the contexts with their full text.
ask(idx, retriever, question, answer) ==
    LET ctx == Retrieve(idx, retriever, question)
    IN  [answer |-> answer,
         sources |-> [i \in 1..Len(ctx) |->
                        [namespace |-> ctx[i].namespace, source |-> ctx[i].source,
                         page |-> ctx[i].page, score |-> ctx[i].score,
                         chunk |-> Null]],
         contexts |-> [i \in 1..Len(ctx) |->
                        [namespace |-> ctx[i].namespace, source |-> ctx[i].source,
                         page |-> ctx[i].page, chunk |-> ctx[i].text]]]

(***************************************************************************)
(* Helpers of app.py.                                                      *)
(***************************************************************************)
NoPage == -1     \* page_int = None

icon_for_namespace(ns) == IF ns = COURSE_NAMESPACE THEN "book" ELSE "hospital"

AllFiles == PatientFiles \cup CourseFiles
SourcePaths == {path_join(COURSE_DIR, f) : f \in AllFiles}
                  \cup {path_join(PATIENT_DIR, f) : f \in AllFiles}

\* os.path.basename(src_path)
basename(src_path) ==
    IF src_path \in SourcePaths
    THEN CHOOSE f \in AllFiles :
            src_path \in {path_join(COURSE_DIR, f), path_join(PATIENT_DIR, f)}
    ELSE src_path

\* re.sub(r"\\.pdf$", "", base): the pattern wants a backslash before ".pdf",
\* which no basename of the model has, so the name is returned as it is.
pretty_source_label(src_path) == basename(src_path)

\* "medical_course" in src.lower()
mentions_medical_course(src) ==
    src \in {path_join(COURSE_DIR, f) : f \in AllFiles}
              \cup {path_join(PATIENT_DIR, "Medical_Course.pdf")}

\* int(page) guarded by try/except
page_int(page) == IF page >= 0 THEN page ELSE NoPage

Anchor(turn_idx, i) == "src-" \o ToString(turn_idx) \o "-" \o ToString(i)

SourceLine(s, turn_idx, i) ==
    LET ns == s.namespace
        src == s.source
        ns_label == IF ns # "" THEN ns
                    ELSE IF mentions_medical_course(src) THEN COURSE_NAMESPACE
                    ELSE "Patient"
    IN  [anchor |-> Anchor(turn_idx, i),
         label |-> i,
         icon |-> icon_for_namespace(IF ns # "" THEN ns ELSE COURSE_NAMESPACE),
         ns_label |-> ns_label,
         src_label |-> IF src # "" THEN pretty_source_label(src) ELSE ns_label,
         page |-> page_int(s.page),
         expander |-> IF s.chunk = Null THEN "" ELSE s.chunk]

\* links whose anchors count the sources from 0
CitationLinksFromZero(n, turn_idx) ==
    [i \in 1..n |-> [href |-> "#" \o Anchor(turn_idx, i - 1), label |-> i]]

\* lines 128-131: link i points at the anchor (line 119) of source line i
CitationLinks(n, turn_idx) ==
    [i \in 1..n |-> [href |-> "#" \o Anchor(turn_idx, i), label |-> i]]

\* build_clickable_citations(sources, turn_idx) -> (citation_html, lines):
\* citation_html as the sequence of its links, empty for the empty string.
build_clickable_citations(sources, turn_idx) ==
    IF sources = << >>
    THEN [citation_html |-> << >>, lines |-> << >>]
    ELSE [citation_html |-> CitationLinks(Len(sources), turn_idx),
          lines |-> [i \in 1..Len(sources) |-> SourceLine(sources[i], turn_idx, i)]]

\* a listing that keeps the coursebook namespace among the patients
ListUnfiltered(idx, reachable) ==
    IF reachable THEN [raised |-> FALSE, value |-> StatsNamespaces(idx)]
    ELSE [raised |-> FALSE, value |-> {}]

\* list_patient_namespaces(): the try/except turns a failing stats call into
\* the empty list; `raised` says whether an exception leaves the function.
list_patient_namespaces(idx, reachable) ==
    IF reachable
    THEN [raised |-> FALSE,
          value |-> {ns \in StatsNamespaces(idx) : ns # COURSE_NAMESPACE}]
    ELSE [raised |-> FALSE, value |-> {}]

(***************************************************************************)
(* State.                                                                  *)
(***************************************************************************)
VARIABLES
    \* st.session_state
    current_patient, chat_history, uploaded_courses,
    patient_uploader_key, course_uploader_key,
    show_patient_dialog, processing_patient, patient_meta,
    show_course_dialog, processing_course, course_meta,
    patients_cache, patient_selector_key,
    \* widget state kept by the front end between runs
    search_mode, select_value, patient_pdf, course_pdf, clicked, user_msg,
    \* the script run: position, widgets drawn, locals, what is on screen
    pc, widgets, remote_patients, patients, current, retriever, ns_results,
    composed, result, rendered, error,
    \* the vector store and the clock
    index, clock,
    \* history of the ingestion calls
    course_calls, course_ok, ledger_calls, patient_ok, patient_calls, list_failed

session == << current_patient, chat_history, uploaded_courses,
              patient_uploader_key, course_uploader_key,
              show_patient_dialog, processing_patient, patient_meta,
              show_course_dialog, processing_course, course_meta,
              patients_cache, patient_selector_key >>
front == << search_mode, select_value, patient_pdf, course_pdf, clicked, user_msg >>
run == << pc, widgets, remote_patients, patients, current, retriever, ns_results,
          composed, result, rendered, error >>
world == << index, clock >>
ingestions == << course_calls, course_ok, ledger_calls, patient_ok, patient_calls >>
calls == << ingestions, list_failed >>
vars == << session, front, run, world, calls >>

NoResult == [status |-> "none"]

\* _defaults (lines 49-69), the widgets' initial values and an empty index.
Defaults ==
    /\ current_patient = NONE
    /\ uploaded_courses = {}
    /\ patient_uploader_key = 0
    /\ course_uploader_key = 0
    /\ show_patient_dialog = FALSE
    /\ processing_patient = FALSE
    /\ patient_meta = Null
    /\ show_course_dialog = FALSE
    /\ processing_course = FALSE
    /\ course_meta = Null
    /\ patients_cache = {}
    /\ patient_selector_key = 0
    /\ search_mode = "Both"
    /\ select_value = Null
    /\ patient_pdf = Null
    /\ course_pdf = Null
    /\ clicked = Null
    /\ user_msg = Null
    /\ widgets = {}
    /\ remote_patients = {}
    /\ patients = {NONE}
    /\ current = NONE
    /\ composed = << >>
    /\ result = NoResult
    /\ rendered = << >>
    /\ error = Null
    /\ index = [ns \in Namespaces |-> {}]
    /\ clock = 0
    /\ course_calls = [f \in CourseFiles |-> "never"]
    /\ course_ok = [f \in CourseFiles |-> "never"]
    /\ ledger_calls = [f \in CourseFiles |-> "never"]
    /\ patient_ok = {}
    /\ patient_calls = "never"
    /\ list_failed = FALSE

\* the first run of the script in a new session
Init ==
    /\ Defaults
    /\ chat_history = [k \in {} |-> << >>]
    /\ retriever = << >>
    /\ ns_results = << >>
    /\ pc = "sidebar"

(***************************************************************************)
(* User events.  Each changes one widget of the page drawn by the last run *)
(* and starts a script run.                                                *)
(***************************************************************************)
StartRun == pc' = "sidebar"

\* the radio of lines 204-208
ChangeSearchMode(m) ==
    /\ pc = "idle" /\ "search_mode" \in widgets
    /\ m # search_mode
    /\ search_mode' = m
    /\ StartRun
    /\ UNCHANGED << session, select_value, patient_pdf, course_pdf, clicked, user_msg,
                    widgets, remote_patients, patients, current, retriever,
                    ns_results, composed, result, rendered, error, world, calls >>

\* the selectbox of lines 215-222
SelectClient(p) ==
    /\ pc = "idle" /\ "select_client" \in widgets
    /\ p \in patients /\ p # current_patient
    /\ select_value' = p
    /\ StartRun
    /\ UNCHANGED << session, search_mode, patient_pdf, course_pdf, clicked, user_msg,
                    widgets, remote_patients, patients, current, retriever,
                    ns_results, composed, result, rendered, error, world, calls >>

\* the buttons of lines 225, 161 and 190
ClickButton(b) ==
    /\ pc = "idle" /\ b \in widgets
    /\ clicked' = b
    /\ StartRun
    /\ UNCHANGED << session, search_mode, select_value, patient_pdf, course_pdf,
                    user_msg, widgets, remote_patients, patients, current, retriever,
                    ns_results, composed, result, rendered, error, world, calls >>

\* the file uploader of lines 231-233: a file is put into the empty uploader
UploadPatient(f) ==
    /\ pc = "idle" /\ "patient_pdf" \in widgets
    /\ patient_uploader_key + course_uploader_key < MaxUploads
    /\ patient_pdf = Null
    /\ patient_pdf' = f
    /\ StartRun
    /\ UNCHANGED << session, search_mode, select_value, course_pdf, clicked, user_msg,
                    widgets, remote_patients, patients, current, retriever,
                    ns_results, composed, result, rendered, error, world, calls >>

\* the file uploader of lines 249-251
UploadCourse(f) ==
    /\ pc = "idle" /\ "course_pdf" \in widgets
    /\ patient_uploader_key + course_uploader_key < MaxUploads
    /\ course_pdf = Null
    /\ course_pdf' = f
    /\ StartRun
    /\ UNCHANGED << session, search_mode, select_value, patient_pdf, clicked, user_msg,
                    widgets, remote_patients, patients, current, retriever,
                    ns_results, composed, result, rendered, error, world, calls >>

\* the chat input of line 306
SubmitChat(msg) ==
    /\ pc = "idle" /\ "chat_input" \in widgets
    /\ msg \in BlankMsgs \/ clock < MaxClock
    /\ user_msg' = msg
    /\ StartRun
    /\ UNCHANGED << session, search_mode, select_value, patient_pdf, course_pdf, clicked,
                    widgets, remote_patients, patients, current, retriever,
                    ns_results, composed, result, rendered, error, world, calls >>

(***************************************************************************)
(* The script run.                                                         *)
(***************************************************************************)
\* st.rerun(): the run is abandoned and a new one starts; a button or chat
\* input is seen only by the run its event started.
Rerun == pc' = "sidebar" /\ clicked' = Null /\ user_msg' = Null

\* an uncaught exception ends the run and is shown on the page
Raise(e) == pc' = "end" /\ error' = e /\ clicked' = Null /\ user_msg' = Null

\* the value st.selectbox returns (lines 215-222): the user's new choice in
\* the run that choice started, the option at `index` otherwise
selectbox(options, value, default) ==
    IF value # Null /\ value \in options THEN value
    ELSE IF default \in options THEN default ELSE NONE

\* a Clear History that empties the history of every client
ClearEveryHistory(history, client) ==
    [k \in DOMAIN history \cup {client} |-> << >>]

\* line 226: chat_history[current_patient] = []
ClearHistory(history, client) ==
    [k \in DOMAIN history \cup {client} |->
        IF k = client THEN << >> ELSE history[k]]

\* lines 200-227: search mode, patient list, client selector, Clear History
Sidebar ==
    /\ pc = "sidebar"
    /\ \E reachable \in BOOLEAN :
        LET listed == list_patient_namespaces(index, reachable)
            options == {NONE} \cup listed.value \cup patients_cache
            chosen == selectbox(options, select_value, current_patient)
        IN  /\ list_failed' = ~reachable
            /\ IF listed.raised
               THEN /\ Raise("ListingError")
                    /\ widgets' = {"search_mode"}
                    /\ UNCHANGED << remote_patients, patients, current_patient,
                                    chat_history, select_value >>
               ELSE /\ remote_patients' = listed.value
                    /\ patients' = options
                    /\ current_patient' = chosen
                    /\ select_value' = Null
                    /\ widgets' = {"search_mode", "select_client"}
                                    \cup (IF chosen # NONE THEN {"clear"} ELSE {})
                    /\ chat_history' =
                         IF chosen # NONE /\ clicked = "clear"
                         THEN ClearHistory(chat_history, chosen)
                         ELSE chat_history
                    /\ pc' = "patient_upload"
                    /\ error' = Null
                    \* line 225: the click belongs to this button alone
                    /\ clicked' = IF clicked = "clear" THEN Null ELSE clicked
                    /\ UNCHANGED user_msg
    /\ current' = NONE
    /\ retriever' = << >>
    /\ ns_results' = << >>
    /\ composed' = << >>
    /\ result' = NoResult
    /\ rendered' = << >>
    /\ UNCHANGED << uploaded_courses, patient_uploader_key, course_uploader_key,
                    show_patient_dialog, processing_patient, patient_meta,
                    show_course_dialog, processing_course, course_meta,
                    patients_cache, patient_selector_key,
                    search_mode, patient_pdf, course_pdf, world, ingestions >>

\* how often something happened, as far as the properties tell it apart
Again(n) == IF n = "never" THEN "once" ELSE "repeatedly"

\* a save path that differs from one upload of a file to the next
SavePathPerUpload(filename, uploader_key) ==
    path_join(PATIENT_DIR, ToString(uploader_key) \o "_" \o filename)

\* line 237: the file is saved under its own name, whatever the uploader key
patient_save_path(filename, uploader_key) == path_join(PATIENT_DIR, filename)

\* remote_patients (line 210) is not read after line 211
ListingDone == remote_patients' = {} /\ list_failed' = FALSE

\* lines 234-244: a file waits in the uploader and no upload is in progress
PatientUploadStart ==
    /\ pc = "patient_upload"
    /\ patient_pdf # Null /\ ~processing_patient
    /\ patient_meta' = << patient_save_path(patient_pdf, patient_uploader_key),
                          splitext0(patient_pdf), patient_pdf >>
    /\ show_patient_dialog' = TRUE
    /\ processing_patient' = TRUE
    /\ widgets' = widgets \cup {"patient_pdf"}
    /\ Rerun
    /\ UNCHANGED << current_patient, chat_history, uploaded_courses,
                    patient_uploader_key, course_uploader_key,
                    show_course_dialog, processing_course, course_meta,
                    patients_cache, patient_selector_key,
                    search_mode, select_value, patient_pdf, course_pdf,
                    patients, current, retriever, ns_results,
                    composed, result, rendered, error, world,
                    course_calls, course_ok, ledger_calls, patient_ok >>
    \* no call of process_patient_pdf for this upload yet
    /\ patient_calls' = "never"
    /\ ListingDone

\* lines 246-247 and 147-168: patient_dialog() ingests the file of
\* patient_meta on every run that shows it; Close ends the upload.
PatientDialog ==
    /\ pc = "patient_upload"
    /\ ~(patient_pdf # Null /\ ~processing_patient)
    /\ show_patient_dialog
    /\ LET save_path == patient_meta[1]
           patient_id == patient_meta[2]
           filename == patient_meta[3]
       IN \E outcome \in IngestOutcomes :
          \E n \in UpsertedCounts(filename, outcome) :
            /\ index' = process_patient_pdf(index, save_path, patient_id, filename, n)
            /\ patient_ok' = IF outcome = "ok" THEN patient_ok \cup {filename}
                             ELSE patient_ok
            \* the calls of line 155 for the upload in progress; Close ends it
            /\ patient_calls' = IF outcome = "ok" /\ clicked = "close_patient"
                                THEN "never" ELSE Again(patient_calls)
            /\ IF outcome # "ok"
               THEN /\ Raise(outcome)
                    /\ widgets' = widgets \cup {"patient_pdf"}
                    /\ UNCHANGED << patients_cache, current_patient,
                                    show_patient_dialog, processing_patient,
                                    patient_uploader_key, patient_selector_key,
                                    patient_pdf, select_value >>
               ELSE IF clicked = "close_patient"
               THEN /\ patients_cache' = patients_cache \cup {patient_id}
                    /\ current_patient' = patient_id
                    /\ show_patient_dialog' = FALSE
                    /\ processing_patient' = FALSE
                    /\ patient_uploader_key' = patient_uploader_key + 1
                    /\ patient_selector_key' = patient_selector_key + 1
                    /\ patient_pdf' = Null
                    /\ select_value' = Null
                    /\ widgets' = widgets \cup {"patient_pdf", "close_patient"}
                    /\ Rerun
                    /\ UNCHANGED error
               ELSE /\ pc' = "course_upload"
                    /\ widgets' = widgets \cup {"patient_pdf", "close_patient"}
                    /\ UNCHANGED << patients_cache, current_patient,
                                    show_patient_dialog, processing_patient,
                                    patient_uploader_key, patient_selector_key,
                                    patient_pdf, select_value, clicked, user_msg,
                                    error >>
    /\ UNCHANGED << chat_history, uploaded_courses, course_uploader_key, patient_meta,
                    show_course_dialog, processing_course, course_meta,
                    search_mode, course_pdf,
                    patients, current, retriever, ns_results,
                    composed, result, rendered, clock,
                    course_calls, course_ok, ledger_calls >>
    /\ ListingDone

\* lines 231-247 when neither branch is taken
PatientUploadSkip ==
    /\ pc = "patient_upload"
    /\ ~(patient_pdf # Null /\ ~processing_patient)
    /\ ~show_patient_dialog
    /\ widgets' = widgets \cup {"patient_pdf"}
    /\ pc' = "course_upload"
    /\ UNCHANGED << session, front, patients, current, retriever,
                    ns_results, composed, result, rendered, error, world, ingestions >>
    /\ ListingDone

\* a ledger that records the filename whatever the ingestion did
LedgerMarkedFirst(ledger, filename, outcome) == ledger \cup {filename}

\* a dialog that never consults the ledger
NeverProcessed(ledger, filename) == FALSE

\* line 176: the ledger is asked before anything is ingested
AlreadyProcessed(ledger, filename) == filename \in ledger

\* lines 184-185: the ledger after process_coursebook_pdf; an exception
\* leaves the function before the filename is recorded.
LedgerAfter(ledger, filename, outcome) ==
    IF outcome = "ok" THEN ledger \cup {filename} ELSE ledger

\* lines 252-261
CourseUploadStart ==
    /\ pc = "course_upload"
    /\ course_pdf # Null /\ ~processing_course
    /\ course_meta' = << path_join(COURSE_DIR, course_pdf), course_pdf >>
    /\ show_course_dialog' = TRUE
    /\ processing_course' = TRUE
    /\ widgets' = widgets \cup {"course_pdf"}
    /\ Rerun
    /\ UNCHANGED << current_patient, chat_history, uploaded_courses,
                    patient_uploader_key, course_uploader_key,
                    show_patient_dialog, processing_patient, patient_meta,
                    patients_cache, patient_selector_key,
                    search_mode, select_value, patient_pdf, course_pdf,
                    remote_patients, patients, current, retriever, ns_results,
                    composed, result, rendered, error, world, calls >>

\* lines 263-264 and 170-194: coursebook_dialog() ingests the file of
\* course_meta unless the ledger has its name; Close ends the upload.
CourseDialog ==
    /\ pc = "course_upload"
    /\ ~(course_pdf # Null /\ ~processing_course)
    /\ show_course_dialog
    /\ LET save_path == course_meta[1]
           filename == course_meta[2]
           recorded == AlreadyProcessed(uploaded_courses, filename)
       IN \E outcome \in (IF recorded THEN {"ok"} ELSE IngestOutcomes) :
          \E n \in (IF recorded THEN {0} ELSE UpsertedCounts(filename, outcome)) :
            /\ index' = IF recorded THEN index
                        ELSE process_coursebook_pdf(index, save_path, filename, n)
            /\ course_calls' = IF recorded THEN course_calls
                               ELSE [course_calls EXCEPT ![filename] = Again(@)]
            /\ course_ok' = IF ~recorded /\ outcome = "ok"
                            THEN [course_ok EXCEPT ![filename] = Again(@)]
                            ELSE course_ok
            /\ ledger_calls' = IF ~recorded /\ filename \in uploaded_courses
                               THEN [ledger_calls EXCEPT ![filename] = Again(@)]
                               ELSE ledger_calls
            /\ uploaded_courses' = IF recorded THEN uploaded_courses
                                   ELSE LedgerAfter(uploaded_courses, filename, outcome)
            /\ IF outcome # "ok"
               THEN /\ Raise(outcome)
                    /\ widgets' = widgets \cup {"course_pdf"}
                    /\ UNCHANGED << show_course_dialog, processing_course,
                                    course_uploader_key, course_pdf >>
               ELSE IF clicked = "close_course"
               THEN /\ show_course_dialog' = FALSE
                    /\ processing_course' = FALSE
                    /\ course_uploader_key' = course_uploader_key + 1
                    /\ course_pdf' = Null
                    /\ widgets' = widgets \cup {"course_pdf", "close_course"}
                    /\ Rerun
                    /\ UNCHANGED error
               ELSE /\ pc' = "chat_display"
                    /\ widgets' = widgets \cup {"course_pdf", "close_course"}
                    /\ UNCHANGED << show_course_dialog, processing_course,
                                    course_uploader_key, course_pdf, clicked,
                                    user_msg, error >>
    /\ UNCHANGED << current_patient, chat_history, patient_uploader_key,
                    show_patient_dialog, processing_patient, patient_meta,
                    course_meta, patients_cache, patient_selector_key,
                    search_mode, select_value, patient_pdf,
                    remote_patients, patients, current, retriever, ns_results,
                    composed, result, rendered, clock, patient_ok, patient_calls,
                    list_failed >>

\* lines 249-264 when neither branch is taken
CourseUploadSkip ==
    /\ pc = "course_upload"
    /\ ~(course_pdf # Null /\ ~processing_course)
    /\ ~show_course_dialog
    /\ widgets' = widgets \cup {"course_pdf"}
    /\ pc' = "chat_display"
    /\ UNCHANGED << session, front, remote_patients, patients, current, retriever,
                    ns_results, composed, result, rendered, error, world, calls >>

\* lines 270-300: the history of the selected client is created when missing
\* and drawn turn by turn, turn_idx counting from 0.
ChatDisplay ==
    /\ pc = "chat_display"
    /\ current' = current_patient
    /\ chat_history' = [k \in DOMAIN chat_history \cup {current_patient} |->
                           IF k \in DOMAIN chat_history THEN chat_history[k] ELSE << >>]
    /\ rendered' = [t \in 1..Len(chat_history'[current_patient]) |->
                       build_clickable_citations(
                           chat_history'[current_patient][t].sources, t - 1)]
    /\ pc' = "chat_input"
    /\ UNCHANGED << current_patient, uploaded_courses,
                    patient_uploader_key, course_uploader_key,
                    show_patient_dialog, processing_patient, patient_meta,
                    show_course_dialog, processing_course, course_meta,
                    patients_cache, patient_selector_key,
                    front, widgets, remote_patients, patients, retriever, ns_results,
                    composed, result, error, world, calls >>

\* a dispatch that hands the selector's "None" on as a namespace
RetrieverPassingSentinel(mode, client) ==
    CASE mode = "Client Only" -> build_retrievers(client, Null)
      [] mode = "Coursebook Only" -> build_retrievers(Null, COURSE_NAMESPACE)
      [] OTHER -> build_retrievers(client, COURSE_NAMESPACE)

\* a dispatch that configures both namespaces whatever the search mode
ArgsIgnoringMode(mode, client) ==
    [patient_id |-> IF client # NONE THEN client ELSE Null,
     course_namespace |-> COURSE_NAMESPACE]

\* lines 310-330: the keyword arguments patient_id and course_namespace of
\* build_retrievers for the search mode and the selected client
RetrieverArgs(mode, client) ==
    CASE mode = "Client Only" ->
            [patient_id |-> IF client # NONE THEN client ELSE Null,
             course_namespace |-> Null]
      [] mode = "Coursebook Only" ->
            [patient_id |-> Null, course_namespace |-> COURSE_NAMESPACE]
      [] OTHER ->
            [patient_id |-> IF client # NONE THEN client ELSE Null,
             course_namespace |-> COURSE_NAMESPACE]

\* lines 310-330: the retriever for the search mode and the selected client
RetrieverFor(mode, client) ==
    build_retrievers(RetrieverArgs(mode, client).patient_id,
                     RetrieverArgs(mode, client).course_namespace)

\* lines 340-348: every source takes the chunk of the first context with its
\* source, page and namespace.
merge_chunks(sources, contexts) ==
    [i \in 1..Len(sources) |->
        LET src == sources[i]
            hits == {j \in 1..Len(contexts) :
                        /\ src.source = contexts[j].source
                        /\ src.page = contexts[j].page
                        /\ src.namespace = contexts[j].namespace}
        IN  IF hits = {} THEN src
            ELSE [src EXCEPT !.chunk =
                     contexts[CHOOSE j \in hits : \A h \in hits : j <= h].chunk]]

\* a chat step that puts the new turn before the earlier ones
HistoryPrepend(history, client, status, turn) ==
    IF status = "ok" THEN [history EXCEPT ![client] = << turn >> \o @] ELSE history

\* a chat step that records the turn whatever ask() did
HistoryAppendAlways(history, client, status, turn) ==
    [history EXCEPT ![client] = Append(@, turn)]

\* lines 335-357: the turn is appended after ask() returned; an exception in
\* ask() leaves the script before the append.
HistoryAfterAsk(history, client, status, turn) ==
    IF status = "ok" THEN [history EXCEPT ![client] = Append(@, turn)] ELSE history

\* What build_retrievers and ask can do with a retriever: with no namespace
\* configured the question is rejected or answered from an empty context.
AskOutcomes(retr) ==
    IF retr = << >> THEN {"ok", "ConfigurationError", "GenerationError"}
    ELSE {"ok", "IndexStoreError", "GenerationError"}

\* lines 306-307 and 360-364: no question, the run ends with the footer; its
\* locals are gone and the page waits for the user
ChatInputNone ==
    /\ pc = "chat_input"
    /\ user_msg = Null \/ strip(user_msg) = ""
    /\ widgets' = widgets \cup {"chat_input"}
    /\ pc' = "idle"
    /\ clicked' = Null
    /\ user_msg' = Null
    /\ current' = NONE
    /\ retriever' = << >>
    /\ ns_results' = << >>
    /\ composed' = << >>
    /\ result' = NoResult
    /\ rendered' = << >>
    /\ UNCHANGED << session, search_mode, select_value, patient_pdf, course_pdf,
                    remote_patients, patients, error, world, calls >>

\* lines 306-358: the question is answered and the turn appended
ChatInputAsk ==
    /\ pc = "chat_input"
    /\ user_msg # Null /\ strip(user_msg) # ""
    /\ LET question == strip(user_msg)
           retr == RetrieverFor(search_mode, current)
       IN \E status \in AskOutcomes(retr) :
          \E answer \in (IF status = "ok" THEN Answers ELSE {""}) :
            LET res == ask(index, retr, question, answer)
                sources == merge_chunks(res.sources, res.contexts)
                turn == [question |-> question,
                         answer |-> res.answer,
                         sources |-> sources,
                         timestamp |-> clock]
            IN  /\ retriever' = retr
                /\ ns_results' =
                     IF status \in {"ok", "GenerationError"}
                     THEN [i \in 1..Len(retr) |->
                              QueryNamespace(index, retr[i], question, K_PER_NAMESPACE)]
                     ELSE << >>
                /\ composed' = IF status \in {"ok", "GenerationError"}
                               THEN Retrieve(index, retr, question) ELSE << >>
                /\ result' = IF status = "ok"
                             THEN [status |-> "ok", answer |-> res.answer,
                                   sources |-> sources, contexts |-> res.contexts]
                             ELSE [status |-> status]
                /\ chat_history' = HistoryAfterAsk(chat_history, current, status, turn)
                /\ clock' = IF status = "ok" THEN clock + 1 ELSE clock
                /\ IF status = "ok"
                   THEN Rerun /\ UNCHANGED error
                   ELSE Raise(status)
    /\ widgets' = widgets \cup {"chat_input"}
    /\ UNCHANGED << current_patient, uploaded_courses,
                    patient_uploader_key, course_uploader_key,
                    show_patient_dialog, processing_patient, patient_meta,
                    show_course_dialog, processing_course, course_meta,
                    patients_cache, patient_selector_key,
                    search_mode, select_value, patient_pdf, course_pdf,
                    remote_patients, patients, current, rendered, index, calls >>

\* The run ended in an exception: its locals are gone and the page, with the
\* widgets drawn before the exception, waits for the user.
EndRun ==
    /\ pc = "end"
    /\ pc' = "idle"
    /\ current' = NONE
    /\ retriever' = << >>
    /\ ns_results' = << >>
    /\ composed' = << >>
    /\ result' = NoResult
    /\ rendered' = << >>
    /\ error' = Null
    /\ UNCHANGED << session, front, widgets, remote_patients, patients, world, calls >>

(***************************************************************************)
(* The session.                                                            *)
(***************************************************************************)
Next ==
    \/ \E m \in SearchModes : ChangeSearchMode(m)
    \/ \E p \in Namespaces \cup {NONE} : SelectClient(p)
    \/ \E b \in {"clear", "close_patient", "close_course"} : ClickButton(b)
    \/ \E f \in PatientFiles : UploadPatient(f)
    \/ \E f \in CourseFiles : UploadCourse(f)
    \* a blank message starts a run that changes nothing; SpecRun sends it
    \/ \E msg \in Questions : SubmitChat(msg)
    \/ Sidebar
    \/ PatientUploadStart
    \/ PatientDialog
    \/ PatientUploadSkip
    \/ CourseUploadStart
    \/ CourseDialog
    \/ CourseUploadSkip
    \/ ChatDisplay
    \/ ChatInputNone
    \/ ChatInputAsk
    \/ EndRun

Spec == Init /\ [][Next]_vars

(***************************************************************************)
(* build_clickable_citations on its own: the chat display loop run on      *)
(* every history of at most MaxCiteTurns turns whose sources are drawn     *)
(* from CiteSources, at most MaxSources a turn.                            *)
(***************************************************************************)
MaxSources == 2
MaxCiteTurns == 2

CiteSources ==
    { [namespace |-> "A", source |-> path_join(PATIENT_DIR, "A.pdf"),
       page |-> 1, score |-> 2, chunk |-> "chunk text"],
      [namespace |-> "", source |-> path_join(COURSE_DIR, "book.pdf"),
       page |-> NoPage, score |-> 1, chunk |-> Null],
      [namespace |-> COURSE_NAMESPACE, source |-> "",
       page |-> 2, score |-> 1, chunk |-> "chunk text"] }

SeqsUpTo(S, n) == UNION {[1..k -> S] : k \in 0..n}

CiteTurns ==
    { [question |-> "q1", answer |-> "answer", sources |-> ss, timestamp |-> 0] :
        ss \in SeqsUpTo(CiteSources, MaxSources) }

InitCite ==
    /\ Defaults
    /\ chat_history \in [{NONE} -> SeqsUpTo(CiteTurns, MaxCiteTurns)]
    /\ retriever = << >>
    /\ ns_results = << >>
    /\ pc = "chat_display"

NextCite == ChatDisplay

SpecCite == InitCite /\ [][NextCite]_vars

(***************************************************************************)
(* The Retriever Composer on its own: Compose run on every pair of         *)
(* per-namespace results the store can return for the configuration        *)
(* << "A", COURSE_NAMESPACE >>: at most K_PER_NAMESPACE results each, in    *)
(* descending score, no chunk twice within a namespace.                    *)
(***************************************************************************)
MaxScore == 2

ResultKeys ==
    { [source |-> "s1", page |-> 1, chunk_index |-> 0],
      [source |-> "s1", page |-> 1, chunk_index |-> 1],
      [source |-> "s2", page |-> 1, chunk_index |-> 0] }

ResultsOf(ns) ==
    { [namespace |-> ns, source |-> k.source, page |-> k.page,
       chunk_index |-> k.chunk_index, score |-> sc,
       text |-> ChunkText(k.source, k)] : k \in ResultKeys, sc \in 1..MaxScore }

QueryResults(ns) ==
    { rs \in SeqsUpTo(ResultsOf(ns), K_PER_NAMESPACE) :
        \A i, j \in 1..Len(rs) :
            i < j => /\ rs[i].score >= rs[j].score
                     /\ ChunkKey(rs[i]) # ChunkKey(rs[j]) }

InitRetrieve ==
    /\ Defaults
    /\ chat_history = [k \in {} |-> << >>]
    /\ retriever = << "A", COURSE_NAMESPACE >>
    /\ ns_results \in { << a, b >> : a \in QueryResults("A"),
                                       b \in QueryResults(COURSE_NAMESPACE) }
    /\ pc = "compose"

\* retrieve(): the per-namespace results are composed
ComposeStep ==
    /\ pc = "compose"
    /\ composed' = Compose(ns_results)
    /\ pc' = "composed"
    /\ UNCHANGED << session, front, widgets, remote_patients, patients, current,
                    retriever, ns_results, result, rendered, error, world, calls >>

NextRetrieve == ComposeStep

SpecRetrieve == InitRetrieve /\ [][NextRetrieve]_vars

(***************************************************************************)
(* One script run on its own: the script run from every session in which   *)
(* patient A is ingested and at most MaxRunTurns questions were answered,  *)
(* started by one user event (a client chosen, Clear History clicked, a    *)
(* chat message sent, the search mode changed).                            *)
(***************************************************************************)
MaxRunTurns == 2

RunClients == {NONE, "A"}

\* the turn stored for the question answered at time t (before any upload,
\* so with no source)
StoredTurn(t) ==
    [question |-> "q1", answer |-> "answer", sources |-> << >>, timestamp |-> t]

\* the history of client k when the question of time t was asked with
\* client owner[t] selected, for t < n
HistoryOf(owner, n, k) ==
    LET times == SelectSeq([i \in 1..n |-> i - 1], LAMBDA t : owner[t] = k)
    IN  [i \in 1..Len(times) |-> StoredTurn(times[i])]

\* the chat histories after n answered questions; a client that was shown
\* without a question has an empty history
RunHistories(n) ==
    { [k \in keys |-> HistoryOf(owner, n, k)] :
        owner \in [0..(n - 1) -> RunClients],
        keys \in SUBSET RunClients }

\* the user event that started the run: << select_value, clicked, user_msg >>
RunEvents(client) ==
    {<< Null, Null, Null >>}
      \cup {<< p, Null, Null >> : p \in RunClients \ {client}}
      \cup (IF client # NONE THEN {<< Null, "clear", Null >>} ELSE {})
      \cup {<< Null, Null, m >> : m \in Questions \cup BlankMsgs}

InitRun ==
    /\ current_patient \in RunClients
    /\ \E n \in 0..MaxRunTurns :
          /\ clock = n
          /\ chat_history \in
                { h \in RunHistories(n) :
                    \A t \in 0..(n - 1) : \E k \in DOMAIN h :
                        \E i \in 1..Len(h[k]) : h[k][i].timestamp = t }
    /\ uploaded_courses = {}
    /\ patient_uploader_key = 1
    /\ course_uploader_key = 0
    /\ show_patient_dialog = FALSE
    /\ processing_patient = FALSE
    /\ patient_meta = << patient_save_path("A.pdf", 0), splitext0("A.pdf"), "A.pdf" >>
    /\ show_course_dialog = FALSE
    /\ processing_course = FALSE
    /\ course_meta = Null
    /\ patients_cache = {"A"}
    /\ patient_selector_key = 1
    /\ search_mode \in SearchModes
    /\ \E event \in RunEvents(current_patient) :
          /\ select_value = event[1]
          /\ clicked = event[2]
          /\ user_msg = event[3]
    /\ patient_pdf = Null
    /\ course_pdf = Null
    /\ pc = "sidebar"
    /\ widgets = {"search_mode", "select_client", "patient_pdf", "course_pdf",
                  "chat_input"} \cup (IF current_patient # NONE THEN {"clear"} ELSE {})
    /\ remote_patients = {}
    /\ patients = {NONE, "A"}
    /\ current = NONE
    /\ retriever = << >>
    /\ ns_results = << >>
    /\ composed = << >>
    /\ result = NoResult
    /\ rendered = << >>
    /\ error = Null
    /\ index = process_patient_pdf([ns \in Namespaces |-> {}],
                                   patient_save_path("A.pdf", 0), "A", "A.pdf", 2)
    /\ course_calls = [f \in CourseFiles |-> "never"]
    /\ course_ok = [f \in CourseFiles |-> "never"]
    /\ ledger_calls = [f \in CourseFiles |-> "never"]
    /\ patient_ok = {"A.pdf"}
    /\ patient_calls = "never"
    /\ list_failed = FALSE

NextRun ==
    \/ Sidebar
    \/ PatientUploadSkip
    \/ CourseUploadSkip
    \/ ChatDisplay
    \/ ChatInputNone
    \/ ChatInputAsk
    \/ EndRun

SpecRun == InitRun /\ [][NextRun]_vars

(***************************************************************************)
(* Properties.                                                             *)
(***************************************************************************)

C2_LedgerOnlyAfterSuccess ==
    \A f \in CourseFiles : f \in uploaded_courses => course_ok[f] # "never"

\* an ingestion of a coursebook has just failed and its name is not recorded
C2_FailedAndNotRecorded ==
    /\ pc = "end"
    /\ error \in {"ExtractionError", "EmbeddingProviderError"}
    /\ show_course_dialog
    /\ course_calls[course_meta[2]] # "never"
    /\ course_ok[course_meta[2]] = "never"
    /\ course_meta[2] \notin uploaded_courses

\* C3: a run of patient_dialog for a file that was already ingested
\* completely leaves the vector count of that patient's namespace as it is.
C3_ReingestKeepsVectorCount ==
    [][ ( /\ pc = "patient_upload"
          /\ show_patient_dialog
          /\ ~(patient_pdf # Null /\ ~processing_patient)
          /\ patient_meta[3] \in patient_ok )
        => Cardinality(index'[patient_meta[2]]) = Cardinality(index[patient_meta[2]])
      ]_vars

\* a patient upload was closed, so that its file was ingested by the run that
\* drew the Close button and again by the run of the click, and the
\* namespace holds one vector for each chunk of the file
C3_IngestedTwice ==
    /\ patient_uploader_key >= 1
    /\ ~show_patient_dialog
    /\ patient_meta[3] \in patient_ok
    /\ patient_meta[2] # COURSE_NAMESPACE
    /\ Cardinality(index[patient_meta[2]]) = Len(ChunksOf(patient_meta[3]))
    /\ Len(ChunksOf(patient_meta[3])) = 2

\* C4: a question answered in mode "Client Only" with client A selected used
\* a retriever over exactly the namespace A, and no source of the answer has
\* another patient's namespace or the coursebook namespace.
C4_ClientOnlyIsolation ==
    (result.status = "ok" /\ search_mode = "Client Only" /\ current # NONE)
    => /\ retriever = << current >>
       /\ \A i \in 1..Len(result.sources) :
             /\ result.sources[i].namespace = current
             /\ result.sources[i].namespace # COURSE_NAMESPACE

\* C5: list_patient_namespaces lets no error out; when the stats call fails
\* it returns nothing and the selector offers "None" and the local cache;
\* when it succeeds it returns every namespace of the index but the
\* coursebook namespace.
C5_ListingDegradesToEmpty ==
    /\ error # "ListingError"
    /\ pc = "patient_upload" =>
         /\ patients = {NONE} \cup remote_patients \cup patients_cache
         /\ list_failed => remote_patients = {}
         /\ ~list_failed =>
               remote_patients = {ns \in Namespaces : index[ns] # {}} \ {COURSE_NAMESPACE}

\* the listing failed while the index holds a patient namespace, and the run
\* went on with the cache alone
C5_ListingFailed ==
    /\ pc = "patient_upload"
    /\ list_failed
    /\ patients_cache # {}
    /\ \E ns \in Namespaces \ {COURSE_NAMESPACE} : index[ns] # {}

\* C6: a question asked in mode "Client Only" with client "None" queries no
\* namespace; it is rejected, or answered with no source.
C6_NoNamespaceNoSource ==
    (result.status # "none" /\ search_mode = "Client Only" /\ current = NONE)
    => /\ retriever = << >>
       /\ ns_results = << >>
       /\ composed = << >>
       /\ result.status = "ok" =>
             /\ result.sources = << >>
             /\ chat_history[NONE][Len(chat_history[NONE])].sources = << >>

\* such a question was answered while the index holds vectors
C6_AnsweredFromNothing ==
    /\ result.status = "ok"
    /\ search_mode = "Client Only"
    /\ current = NONE
    /\ \E ns \in Namespaces : index[ns] # {}

\* C7: for every turn t of the history drawn, with n sources:
\* build_clickable_citations returns n links labelled 1..n in order and n
\* lines; line i has anchor src-t-i, label i and the namespace, source and
\* page of source i; link i targets the anchor of line i; no anchor occurs
\* twice in the history.
C7_CitationsMatchSources ==
    pc = "chat_input" =>
      LET turns == chat_history[current] IN
      /\ Len(rendered) = Len(turns)
      /\ \A t \in 1..Len(turns) :
           LET src == turns[t].sources
               out == rendered[t]
           IN  /\ Len(out.citation_html) = Len(src)
               /\ Len(out.lines) = Len(src)
               /\ \A i \in 1..Len(src) :
                    /\ out.citation_html[i].label = i
                    /\ out.lines[i].label = i
                    /\ out.lines[i].anchor
                         = "src-" \o ToString(t - 1) \o "-" \o ToString(i)
                    /\ out.citation_html[i].href = "#" \o out.lines[i].anchor
                    /\ src[i].namespace # "" => out.lines[i].ns_label = src[i].namespace
                    /\ src[i].source # "" =>
                         out.lines[i].src_label = basename(src[i].source)
                    /\ src[i].page >= 0 => out.lines[i].page = src[i].page
      /\ \A t1, t2 \in 1..Len(turns) :
           \A i1 \in 1..Len(rendered[t1].lines), i2 \in 1..Len(rendered[t2].lines) :
              rendered[t1].lines[i1].anchor = rendered[t2].lines[i2].anchor
                 => (t1 = t2 /\ i1 = i2)

\* a history of two turns with two sources each was drawn
C7_TwoTurnsDrawn ==
    /\ pc = "chat_input"
    /\ Len(rendered) = 2
    /\ Len(rendered[1].lines) = 2
    /\ Len(rendered[2].lines) = 2
    /\ rendered[1].lines[1].anchor = "src-0-1"
    /\ rendered[2].lines[2].anchor = "src-1-2"

\* C8: a run of the chat handler in which ask() raises a generation error
\* leaves every chat history as it was.
C8_FailedAnswerNotPersisted ==
    [][ (pc = "chat_input" /\ result'.status = "GenerationError")
        => chat_history' = chat_history ]_vars

\* the generation of an answer has just failed
C8_GenerationFailed ==
    /\ pc = "end"
    /\ result.status = "GenerationError"
    /\ error = "GenerationError"
    /\ retriever # << >>

\* the position of the configured namespace a result came from
NamespaceRank(r) == CHOOSE k \in 1..Len(retriever) : retriever[k] = r.namespace

\* the rank of a result within the results of its namespace
RankInNamespace(r) ==
    CHOOSE i \in 1..Len(ns_results[NamespaceRank(r)]) :
        ns_results[NamespaceRank(r)][i] = r

\* C9: the composed results are in descending score, and of two results with
\* the same score the one of the namespace configured first comes first,
\* then the one ranked first in its namespace.
C9_DescendingScoreStable ==
    pc = "composed" =>
      \A i, j \in 1..Len(composed) :
         i < j =>
           /\ composed[i].score >= composed[j].score
           /\ composed[i].score = composed[j].score =>
                \/ NamespaceRank(composed[i]) < NamespaceRank(composed[j])
                \/ /\ NamespaceRank(composed[i]) = NamespaceRank(composed[j])
                   /\ RankInNamespace(composed[i]) < RankInNamespace(composed[j])

\* two results with the same score, the later one from the namespace
\* configured first, were composed
C9_TieAcrossNamespaces ==
    /\ pc = "composed"
    /\ \E i, j \in 1..Len(composed) :
          /\ i < j
          /\ composed[i].score = composed[j].score
          /\ composed[i].namespace = "A"
          /\ composed[j].namespace = COURSE_NAMESPACE
    /\ Len(ns_results[1]) = 2
    /\ ns_results[2][1].score > ns_results[1][2].score

\* C10: a chunk (source_path, page, chunk_index) returned by both namespaces
\* occurs once in the composed results, with the higher of its two scores.
C10_DuplicateKeepsHigherScore ==
    pc = "composed" =>
      \A a \in 1..Len(ns_results[1]), b \in 1..Len(ns_results[2]) :
         ChunkKey(ns_results[1][a]) = ChunkKey(ns_results[2][b]) =>
            LET kept == {i \in 1..Len(composed) :
                            ChunkKey(composed[i]) = ChunkKey(ns_results[1][a])}
                high == IF ns_results[1][a].score >= ns_results[2][b].score
                        THEN ns_results[1][a].score ELSE ns_results[2][b].score
            IN  /\ Cardinality(kept) = 1
                /\ \A i \in kept : composed[i].score = high

\* a chunk returned by both namespaces with different scores, the higher one
\* from the second namespace, was composed
C10_DuplicateComposed ==
    /\ pc = "composed"
    /\ \E a \in 1..Len(ns_results[1]), b \in 1..Len(ns_results[2]) :
          /\ ChunkKey(ns_results[1][a]) = ChunkKey(ns_results[2][b])
          /\ ns_results[1][a].score < ns_results[2][b].score
    /\ Len(composed) = TOP_N

\* the namespaces among the arguments handed to build_retrievers
ArgNamespaces(args) == {args.patient_id, args.course_namespace} \ {Null}

\* C12: the namespaces handed to build_retrievers depend on the search mode
\* and the selected client alone: "Coursebook Only" gives {Medical_Course},
\* "Client Only" with client P gives {P}, "Both" with client P gives
\* {P, Medical_Course}, "Both" with client "None" gives {Medical_Course};
\* "None" is never handed on as a patient id.
C12_NamespacesByModeAndClient ==
    result.status # "none" =>
      LET args == RetrieverArgs(search_mode, current)
          P == IF current = NONE THEN {} ELSE {current}
      IN  /\ ArgNamespaces(args) =
                CASE search_mode = "Coursebook Only" -> {COURSE_NAMESPACE}
                  [] search_mode = "Client Only" -> P
                  [] OTHER -> P \cup {COURSE_NAMESPACE}
          /\ args.patient_id # NONE
          /\ retriever = build_retrievers(args.patient_id, args.course_namespace)

\* a question was asked in mode "Coursebook Only" while client A was selected
C12_CoursebookOnlyWithClient ==
    /\ result.status = "ok"
    /\ search_mode = "Coursebook Only"
    /\ current = "A"
    /\ retriever = << COURSE_NAMESPACE >>

\* C13: after the merge of lines 340-348 every source of an answered
\* question carries the text of its own context: the chunk of sources[i] is
\* the chunk of contexts[i], also when two sources share source, page and
\* namespace; the turn stored in the history has these sources.
C13_SourceCarriesOwnChunk ==
    result.status = "ok" =>
      /\ Len(result.sources) = Len(result.contexts)
      /\ \A i \in 1..Len(result.sources) :
            result.sources[i].chunk = result.contexts[i].chunk
      /\ chat_history[current][Len(chat_history[current])].sources = result.sources

\* the history of client k, empty when the client has none yet
Hist(history, k) == IF k \in DOMAIN history THEN history[k] ELSE << >>

\* the number of turns stored in all histories
StoredTurns(history) ==
    LET RECURSIVE Sum(_)
        Sum(K) == IF K = {} THEN 0
                  ELSE LET k == CHOOSE x \in K : TRUE
                       IN  Len(history[k]) + Sum(K \ {k})
    IN  Sum(DOMAIN history)

\* C14: a step of the chat handler that answers a non-blank question puts
\* exactly one turn {question, answer, sources, timestamp} at the end of
\* the history of the selected client ("None" when none is selected) and
\* leaves the earlier turns and the other histories as they were; any other
\* step of the chat handler (blank or no input, a failed answer) leaves
\* every history as it was.
C14_OneTurnAppended ==
    [][ pc = "chat_input" =>
          /\ current = current_patient
          /\ IF user_msg # Null /\ strip(user_msg) # "" /\ result'.status = "ok"
             THEN LET old == chat_history[current]
                      new == chat_history'[current]
                  IN  /\ DOMAIN chat_history' = DOMAIN chat_history
                      /\ \A k \in DOMAIN chat_history \ {current} :
                            chat_history'[k] = chat_history[k]
                      /\ Len(new) = Len(old) + 1
                      /\ SubSeq(new, 1, Len(old)) = old
                      /\ new[Len(new)] = [question |-> strip(user_msg),
                                          answer |-> result'.answer,
                                          sources |-> result'.sources,
                                          timestamp |-> clock]
                      /\ \A i \in 1..Len(old) :
                            new[i].timestamp < new[Len(new)].timestamp
             ELSE chat_history' = chat_history
      ]_vars

\* a question was answered for a client whose history already had a turn,
\* while the other client has a history too
C14_SecondTurnStored ==
    /\ result.status = "ok"
    /\ current = "A"
    /\ Len(chat_history["A"]) = 2
    /\ chat_history["A"][1].timestamp = 0
    /\ chat_history["A"][2].timestamp = 2
    /\ NONE \in DOMAIN chat_history
    /\ Len(chat_history[NONE]) = 1

\* every key a chat history can have
Clients == Namespaces \cup {NONE}

\* C19: a step of the chat handler changes the history of the selected
\* client alone; Clear History is drawn exactly when a client other than
\* "None" is selected, and a click on it empties the history of that client
\* and leaves the other histories, uploaded_courses and patients_cache as
\* they were; no other step, and no step that changes the selected client,
\* changes a history.
C19_HistoriesIsolated ==
    [][ /\ pc = "chat_input" =>
              \A k \in Clients \ {current_patient} :
                  Hist(chat_history', k) = Hist(chat_history, k)
        /\ (pc = "sidebar" /\ pc' = "patient_upload") =>
              /\ "clear" \in widgets' <=> current_patient' # NONE
              /\ IF clicked = "clear" /\ current_patient' # NONE
                 THEN /\ Hist(chat_history', current_patient') = << >>
                      /\ \A k \in Clients \ {current_patient'} :
                            Hist(chat_history', k) = Hist(chat_history, k)
                      /\ uploaded_courses' = uploaded_courses
                      /\ patients_cache' = patients_cache
                 ELSE \A k \in Clients : Hist(chat_history', k) = Hist(chat_history, k)
        /\ pc \notin {"chat_input", "sidebar"} =>
              \A k \in Clients : Hist(chat_history', k) = Hist(chat_history, k)
        /\ current_patient' # current_patient =>
              \A k \in Clients : Hist(chat_history', k) = Hist(chat_history, k)
      ]_vars

\* Clear History was clicked for client A, whose history is now empty, while
\* the history of "None" still has its turns
C19_ClearedOneHistory ==
    /\ pc = "patient_upload"
    /\ current_patient = "A"
    /\ "A" \in DOMAIN chat_history /\ chat_history["A"] = << >>
    /\ NONE \in DOMAIN chat_history /\ Len(chat_history[NONE]) = 1
    /\ StoredTurns(chat_history) < clock

\* C15: the namespace of a patient ingestion is neither the coursebook
\* namespace nor "None"; the coursebook namespace holds vectors of
\* coursebook documents only; every client offered besides "None" is a
\* patient namespace.
C15_PatientNamespaceDistinct ==
    /\ show_patient_dialog => patient_meta[2] \notin {COURSE_NAMESPACE, NONE}
    /\ \A v \in index[COURSE_NAMESPACE] :
          v.source \in {path_join(COURSE_DIR, f) : f \in CourseFiles}
    /\ COURSE_NAMESPACE \notin patients

\* C16: the options of the client selector are "None" and namespaces the
\* store reported to this run, whatever patients_cache holds.
C16_OptionsFromStore ==
    pc = "patient_upload" => patients \subseteq {NONE} \cup remote_patients

\* C17: process_patient_pdf is invoked once for an upload: a run of
\* patient_dialog calls it only if no run has called it since the upload
\* opened the dialog.
C17_OneIngestionPerUpload ==
    [][ ( /\ pc = "patient_upload"
          /\ show_patient_dialog
          /\ ~(patient_pdf # Null /\ ~processing_patient) )
        => patient_calls = "never"
      ]_vars

\* C18: a failed ingestion ends the upload of that document: once
\* process_patient_pdf has raised for the upload in progress and has not
\* completed for its file, no later run ingests the file again.
C18_FailedUploadNotRetried ==
    [][ ( /\ pc = "patient_upload"
          /\ show_patient_dialog
          /\ ~(patient_pdf # Null /\ ~processing_patient)
          /\ patient_calls # "never"
          /\ patient_meta[3] \notin patient_ok )
        => patient_calls' = patient_calls
      ]_vars

====
